---- MODULE Spec2Model ----
\* Verification model of the trace logging facade (a thin wrapper around
\* go.uber.org/zap): the logger variants, the construction helper, the
\* default-logger registry, the package-level functions and the Err field.
EXTENDS Integers, Sequences, FiniteSets, TLC

\* ---------------------------------------------------------------- bounds
\* Number of handles the caller may allocate (New / With / Named).
MaxLoggers == 2
\* Number of leveled calls the caller may issue.
MaxCalls == 2
\* Longest error message Err is applied to.
MaxErrLen == 3
MaxThreads == 2

\* ---------------------------------------------------------------- levels
DebugLevel == -1
InfoLevel == 0
WarnLevel == 1
ErrorLevel == 2
FatalLevel == 5
DisabledLevel == 127

RealLevels == {DebugLevel, InfoLevel, WarnLevel, ErrorLevel, FatalLevel}
NewLevels == RealLevels \cup {DisabledLevel}

\* ---------------------------------------------------------------- strings
\* A string is a sequence of one-character strings.
Chars == {"a", " ", "|", "\n", "\t"}
Separator == <<" ", "|", " ">>

RECURSIVE StringsUpTo(_)
StringsUpTo(n) ==
    IF n = 0 THEN {<<>>}
    ELSE LET shorter == StringsUpTo(n - 1)
         IN  shorter \cup {Append(s, c) : s \in {t \in shorter : Len(t) = n - 1}, c \in Chars}

\* An error value: nil, or an error carrying a message.
NilErr == [isnil |-> TRUE, msg |-> <<>>]
ErrorOf(m) == [isnil |-> FALSE, msg |-> m]
ErrInputs == {NilErr} \cup {ErrorOf(m) : m \in StringsUpTo(MaxErrLen)}

\* strings.ReplaceAll(s, old, new) for a one-character old.
RECURSIVE ReplaceAll(_, _, _)
ReplaceAll(s, old, new) ==
    IF s = <<>> THEN <<>>
    ELSE (IF Head(s) = old THEN new ELSE <<Head(s)>>) \o ReplaceAll(Tail(s), old, new)

\* Fault: formatError without the pass over tabs.
formatError_TabsKept(err) ==
    IF err.isnil THEN <<>>
    ELSE ReplaceAll(err.msg, "\n", Separator)

formatError(err) ==
    IF err.isnil THEN <<>>
    ELSE ReplaceAll(ReplaceAll(err.msg, "\n", Separator), "\t", Separator)

\* zap.String(key, val)
ZapString(key, val) == [key |-> key, type |-> "string", val |-> val]

\* No field built yet.
NoField == [key |-> "", type |-> "none", val |-> <<>>]

\* Fault: Err built on zap.Error(err): a nil error gives zap.Skip(), a field the encoder drops.
Err_ZapError(err) ==
    IF err.isnil THEN [key |-> "", type |-> "skip", val |-> <<>>]
    ELSE ZapString("error", formatError(err))

Err(err) ==
    IF err.isnil THEN ZapString("error", <<>>)
    ELSE ZapString("error", formatError(err))

\* ---------------------------------------------------------------- handles
\* The nil Logger interface value.
NilLogger == [kind |-> "nil", id |-> 0, Log |-> <<>>]
\* &NoopLogger{}
NoopLogger == [kind |-> "noop", id |-> 0, Log |-> <<>>]
NewNoopLogger == NoopLogger
\* A nil *sugarLogger stored in a Logger interface.
NilSugar == [kind |-> "sugarnil", id |-> 0, Log |-> <<>>]
\* &sugarLogger{Log: log}; Log is <<>> for a nil *zap.Logger, else <<engine>>.
SugarLogger(id, log) == [kind |-> "sugar", id |-> id, Log |-> log]
\* &sugarLogger{} : zero-value construction, no engine handle.
ZeroSugar == SugarLogger(0, <<>>)

\* The engine a zap.Logger wraps: its cores (one per sink), the minimum level
\* of the cores, the logger name segments and the fields added by With.
ZapLogger(eid, cores, level, name, fields) ==
    [eid |-> eid, cores |-> cores, level |-> level, name |-> name, fields |-> fields]

Prefixes == {"", "app"}

\* Fault: New that never names the engine.
New_PrefixDropped(id, level, prefix, logFile) ==
    SugarLogger(id, <<ZapLogger(id, IF logFile THEN {"stdout", "file"} ELSE {"stdout"},
                                level, <<>>, <<>>)>>)

\* New(level, prefix, logFile): logFile is TRUE for a file handle, FALSE for nil.
New(id, level, prefix, logFile) ==
    LET cores == IF logFile THEN {"stdout", "file"} ELSE {"stdout"}
        base  == ZapLogger(id, cores, level, <<>>, <<>>)
    IN  IF prefix # ""
        THEN SugarLogger(id, <<[base EXCEPT !.name = <<prefix>>]>>)
        ELSE SugarLogger(id, <<base>>)

VARIABLES
    build,          \* which registry source the build compiled
    defaultLogger,  \* the process-wide default-logger slot
    loggers,        \* handles the caller has allocated, by id
    stdout,         \* records written to standard output
    file,           \* records written to the log file
    stderr,         \* internal write-error reports of the engine
    proc,           \* "running", "exited" (os.Exit) or "panicked"
    ncalls,         \* leveled calls issued so far
    wasSet,         \* SetDefaultLogger has been called
    setArg,         \* the argument of the most recent SetDefaultLogger
    prevArg,        \* the argument of the SetDefaultLogger before that one
    last,           \* the last operation performed and what it did
    errIn,          \* input of the Err application under test
    errOut,         \* its result
    ctx,            \* the context's value under loggerCtxKey{}: <<>> or <<l>>
    thr,            \* what each goroutine is doing
    mu,             \* per sink, the goroutine holding its zapcore.Lock mutex (0: none)
    words,          \* the two words of the defaultLogger interface value in memory
    started,        \* some goroutine has begun reading the default slot
    broken          \* a SetDefaultLogger ran while readers were running

\* The state only the context helpers and the goroutines touch.
ext == <<ctx, thr, mu, words, started, broken>>

vars == <<build, defaultLogger, loggers, stdout, file, stderr, proc, ncalls,
          wasSet, setArg, prevArg, last, errIn, errOut, ext>>

\* ---------------------------------------------------------------- engine
\* What a leveled call did: the cores it wrote to, whether it ended the
\* process (os.Exit) and whether it panicked (nil dereference).
Outcome(cores, exit, panic) == [cores |-> cores, exit |-> exit, panic |-> panic]
Nothing == Outcome({}, FALSE, FALSE)
Panic == Outcome({}, FALSE, TRUE)

\* Faults: a core that drops its own minimum level; a reversed comparison.
Enabled_Strict(log, lvl) == lvl > log.level
Enabled_Reversed(log, lvl) == lvl <= log.level

\* zapcore.NewCore(enc, sink, level): the core accepts lvl iff lvl >= level.
Enabled(log, lvl) == lvl >= log.level

\* zap's Logger.check: below the panic levels a disabled level returns early;
\* otherwise every core of the (tee) core that enables lvl takes the entry.
CheckedCores(log, lvl) ==
    IF lvl < FatalLevel /\ ~Enabled(log, lvl) THEN {}
    ELSE {c \in log.cores : Enabled(log, lvl)}

\* Fault: a Fatal entry that is written like any other and returns.
ZapLog_FatalReturns(log, lvl) == Outcome(CheckedCores(log, lvl), FALSE, FALSE)

\* l.Log.Debug/Info/Warn/Error/Fatal(msg, fields...): write to the checked
\* cores; a Fatal entry ends the process after the write, enabled or not.
ZapLog(log, lvl) == Outcome(CheckedCores(log, lvl), lvl = FatalLevel, FALSE)

\* The keys the console encoder renders: time, level and message always
\* (TimeKey, LevelKey, MessageKey), the name (NameKey) only for a named
\* logger, caller and stack trace never (their keys are empty).
EncoderKeys(log) ==
    {"ts", "level", "msg"} \cup (IF log.name # <<>> THEN {"logger"} ELSE {})

\* The record the console encoder renders for an entry: the logger's fields
\* then the call's, a field of type skip adding nothing.
Entry(log, lvl, fields) ==
    [level |-> lvl, name |-> log.name, keys |-> EncoderKeys(log),
     fields |-> SelectSeq(log.fields \o fields, LAMBDA f : f.type # "skip")]

\* Fault: the file is written only while standard output accepts the record.
Attempted_Failover(cores, failed) ==
    IF "stdout" \in failed THEN cores \ {"file"} ELSE cores

\* CheckedEntry.Write: the cores whose Write is called, given the ones whose
\* write fails; the loop collects the errors and goes on.
Attempted(cores, failed) == cores

\* ---------------------------------------------------------------- methods
\* Fault: a NoOp Fatal that still ends the process.
NoopLogger_Log_FatalExits(lvl) == Outcome({}, lvl = FatalLevel, FALSE)

\* (n *NoopLogger) Debug/Info/Warn/Error/Fatal
NoopLogger_Log(lvl) == Nothing

\* Fault: the leveled methods without the l.Log != nil test.
sugarLogger_Log_Unguarded(l, lvl) ==
    IF l.kind = "sugarnil" \/ l.Log = <<>> THEN Panic
    ELSE ZapLog(l.Log[1], lvl)

\* (l *sugarLogger) Debug/Info/Warn/Error/Fatal
sugarLogger_Log(l, lvl) ==
    IF l.kind = "sugarnil" THEN Panic
    ELSE IF l.Log # <<>> THEN ZapLog(l.Log[1], lvl)
    ELSE Nothing

\* A method call through the Logger interface.
Dispatch(h, lvl) ==
    CASE h.kind = "nil" -> Panic
      [] h.kind = "noop" -> NoopLogger_Log(lvl)
      [] OTHER -> sugarLogger_Log(h, lvl)

\* zap.NewNop(): an engine with no core that enables no level.
ZapNewNop == ZapLogger(0, {}, DisabledLevel, <<>>, <<>>)

\* Fault: a NoOp logger handing out an engine that writes to standard output.
NoopLogger_Zap_Live(b) == <<ZapLogger(0, {"stdout"}, InfoLevel, <<>>, <<>>)>>

\* (n *NoopLogger) Zap: nil in interface.go; the build that takes the registry
\* from part_000 cannot compile interface.go with it (both declare
\* defaultLogger) and has the NoopLogger whose Zap returns zap.NewNop().
NoopLogger_Zap(b) == IF b = "interface.go" THEN <<>> ELSE <<ZapNewNop>>

\* (l *sugarLogger) Zap / (n *NoopLogger) Zap; <<>> is the nil *zap.Logger.
Zap(b, h) == IF h.kind = "sugar" THEN h.Log ELSE NoopLogger_Zap(b)

\* zap's Logger.With / Logger.Named on an engine, as a clone with identity eid.
ZapWith(log, eid, fields) == [log EXCEPT !.eid = eid, !.fields = @ \o fields]
\* Fault: a named clone built afresh, at the engine's default minimum level.
ZapNamed_LevelReset(log, eid, name) ==
    [log EXCEPT !.eid = eid, !.name = Append(@, name), !.level = DebugLevel]

ZapNamed(log, eid, name) ==
    IF name = "" THEN log ELSE [log EXCEPT !.eid = eid, !.name = Append(@, name)]

\* NewChildLogger(parent, prefix)
NewChildLogger(b, parent, id, prefix) ==
    IF parent.kind = "nil" \/ Zap(b, parent) = <<>> THEN NewNoopLogger
    ELSE IF prefix # ""
         THEN SugarLogger(id, <<ZapNamed(Zap(b, parent)[1], id, prefix)>>)
         ELSE SugarLogger(id, <<Zap(b, parent)[1]>>)

\* (l *sugarLogger) With(fields...), (n *NoopLogger) With
With(l, id, fields) ==
    IF l.kind = "noop" THEN l
    ELSE IF l.kind = "sugarnil" \/ l.Log = <<>> THEN l
    ELSE SugarLogger(id, <<ZapWith(l.Log[1], id, fields)>>)

\* (l *sugarLogger) Named(name), (n *NoopLogger) Named
Named(l, id, name) ==
    IF l.kind = "noop" THEN l
    ELSE IF l.kind = "sugarnil" \/ l.Log = <<>> THEN l
    ELSE SugarLogger(id, <<ZapNamed(l.Log[1], id, name)>>)

\* ---------------------------------------------------------------- registry
Builds == {"interface.go", "part_000"}

\* Fault: the slot declared without an initial value.
InitialDefault_Unset(b) == NilLogger

\* var defaultLogger Logger = &NoopLogger{}  /  = NewNoopLogger()
InitialDefault(b) == IF b = "interface.go" THEN NoopLogger ELSE NewNoopLogger

\* The value SetDefaultLogger(logger) stores in the slot.
SetDefaultLoggerValue(b, logger) ==
    IF b = "interface.go"
    THEN (IF logger # NilLogger THEN logger ELSE NoopLogger)
    ELSE logger

\* Fault: the package-level functions bound to the logger of package start.
PackageTarget_Snapshot(slot, initial) == initial

\* The logger a package-level Debug/Info/Warn/Error/Fatal forwards to: the
\* slot as it is at the call, not the value the package started with.
PackageTarget(slot, initial) == slot

\* ---------------------------------------------------------------- caller
\* Arguments the caller passes.
AllNewArgs == NewLevels \X Prefixes \X BOOLEAN
RegistryNewArgs == {<<InfoLevel, "app", FALSE>>, <<DisabledLevel, "", FALSE>>}
DeriveNewArgs == {<<InfoLevel, "app", TRUE>>, <<DisabledLevel, "", FALSE>>}
ChildNewArgs == {<<InfoLevel, "app", FALSE>>}
SomeLevels == {DebugLevel, ErrorLevel, FatalLevel}
\* The errors a call wraps with Err(...) as its fields.
ErrArgs == {<<>>, <<NilErr>>}
WithArgs == {<<ZapString("k", <<"a">>)>>}
NameArgs == {"", "sub"}

Pool == {loggers[i] : i \in 1..Len(loggers)}
\* Loggers a caller can hold and call methods on.
Receivers == Pool \cup {NoopLogger, ZeroSugar, NilSugar}
\* Values a caller can pass where a Logger is expected.
Handles == Receivers \cup {NilLogger}

\* The goroutines of the process besides the one the other actions run on.
Threads == 1..MaxThreads
Sinks == {"stdout", "file"}
\* A goroutine that is in no call.
Idle == [pc |-> "idle"]

NoOp(op) == [op |-> op, via |-> "", h |-> NilLogger, arg |-> <<>>, ret |-> NilLogger,
             zap |-> <<>>, lvl |-> 0, errs |-> <<>>, tried |-> {}, wrote |-> {}, returned |-> TRUE]

InitWith(ls, errs) ==
    /\ build \in Builds
    /\ defaultLogger = InitialDefault(build)
    /\ loggers \in ls
    /\ stdout = <<>>
    /\ file = <<>>
    /\ stderr = 0
    /\ proc = "running"
    /\ ncalls = 0
    /\ wasSet = FALSE
    /\ setArg = NilLogger
    /\ prevArg = NilLogger
    /\ last = NoOp("init")
    /\ errIn \in errs
    /\ errOut = NoField
    /\ ctx = <<>>
    /\ thr = [t \in Threads |-> Idle]
    /\ mu = [c \in Sinks |-> 0]
    /\ words = [tab |-> InitialDefault(build), data |-> InitialDefault(build)]
    /\ started = FALSE
    /\ broken = FALSE

\* logger := New(level, prefix, logFile)
NewLogger(args) ==
    /\ proc = "running"
    /\ Len(loggers) < MaxLoggers
    /\ \E a \in args :
         LET l == New(Len(loggers) + 1, a[1], a[2], a[3])
         IN  /\ loggers' = Append(loggers, l)
             /\ last' = [NoOp("New") EXCEPT !.ret = l]
    /\ UNCHANGED <<build, defaultLogger, stdout, file, stderr, proc, ncalls,
                   wasSet, setArg, prevArg, errIn, errOut, ext>>

\* Fault: a derivation that changes the receiver's engine and hands the
\* receiver back.
Derive_InPlace(op, l, arg, child) ==
    /\ child \notin Receivers => Len(loggers) < MaxLoggers
    /\ loggers' = [i \in 1..Len(loggers) |->
                      IF loggers[i] = l THEN [child EXCEPT !.id = l.id] ELSE loggers[i]]
    /\ last' = [NoOp(op) EXCEPT !.h = l, !.arg = arg, !.ret = [child EXCEPT !.id = l.id]]
    /\ UNCHANGED <<build, defaultLogger, stdout, file, stderr, proc, ncalls,
                   wasSet, setArg, prevArg, errIn, errOut, ext>>

\* child := l.With(fields...) / l.Named(name) / NewChildLogger(l, prefix):
\* the caller holds the child besides the handles it already has, which stay
\* as they are.
Derive(op, l, arg, child) ==
    /\ child \notin Receivers => Len(loggers) < MaxLoggers
    /\ loggers' = IF child \in Receivers THEN loggers ELSE Append(loggers, child)
    /\ last' = [NoOp(op) EXCEPT !.h = l, !.arg = arg, !.ret = child]
    /\ UNCHANGED <<build, defaultLogger, stdout, file, stderr, proc, ncalls,
                   wasSet, setArg, prevArg, errIn, errOut, ext>>

WithCall ==
    /\ proc = "running"
    /\ \E l \in Receivers, fields \in WithArgs :
         Derive("With", l, fields, With(l, Len(loggers) + 1, fields))

NamedCall ==
    /\ proc = "running"
    /\ \E l \in Receivers, name \in NameArgs :
         Derive("Named", l, <<name>>, Named(l, Len(loggers) + 1, name))

\* SetDefaultLogger(logger)
SetDefaultLogger ==
    /\ proc = "running"
    /\ \E logger \in Handles :
         /\ defaultLogger' = SetDefaultLoggerValue(build, logger)
         /\ setArg' = logger
         /\ prevArg' = setArg
         /\ last' = [NoOp("SetDefaultLogger") EXCEPT !.h = logger]
    /\ wasSet' = TRUE
    /\ UNCHANGED <<build, loggers, stdout, file, stderr, proc, ncalls, errIn, errOut, ext>>

\* GetDefaultLogger()
GetDefaultLogger ==
    /\ proc = "running"
    /\ last' = [NoOp("GetDefaultLogger") EXCEPT !.ret = defaultLogger]
    /\ UNCHANGED <<build, defaultLogger, loggers, stdout, file, stderr, proc,
                   ncalls, wasSet, setArg, prevArg, errIn, errOut, ext>>

\* A leveled call on h with fields Err(errs[1]), ...: the engine attempts a
\* write on every checked core, whatever the other writes returned; a failed
\* write appends nothing and is reported once on the engine's error output.
Emit(via, h, log, o, lvl, errs) ==
    LET fields == [i \in 1..Len(errs) |-> Err(errs[i])]
    IN  \E failed \in SUBSET o.cores :
          LET tried == Attempted(o.cores, failed)
              wrote == tried \ failed
          IN  /\ stdout' = IF "stdout" \in wrote
                           THEN Append(stdout, Entry(log[1], lvl, fields)) ELSE stdout
              /\ file' = IF "file" \in wrote
                         THEN Append(file, Entry(log[1], lvl, fields)) ELSE file
              /\ stderr' = IF failed # {} THEN stderr + 1 ELSE stderr
              /\ proc' = IF o.panic THEN "panicked"
                         ELSE IF o.exit THEN "exited" ELSE "running"
              /\ last' = [op |-> "Log", via |-> via, h |-> h, arg |-> <<>>, ret |-> NilLogger,
                          zap |-> log, lvl |-> lvl, errs |-> errs, tried |-> tried,
                          wrote |-> wrote, returned |-> ~o.panic /\ ~o.exit]
              /\ ncalls' = ncalls + 1
              /\ UNCHANGED <<build, defaultLogger, loggers, wasSet, setArg, prevArg,
                             errIn, errOut>>

\* A leveled call through the Logger interface on h.
Log(via, h, lvl, errs) == Emit(via, h, h.Log, Dispatch(h, lvl), lvl, errs)

\* Loggers a caller of the package can pass to NewChildLogger and
\* LoggerToContext: sugarLogger is unexported in the source that declares
\* them, so no caller holds a nil *sugarLogger.
Passable == Handles \ {NilSugar}

\* child := NewChildLogger(parent, prefix)
NewChildCall ==
    /\ proc = "running"
    /\ \E parent \in Passable, prefix \in NameArgs :
         Derive("NewChildLogger", parent, <<prefix>>,
                NewChildLogger(build, parent, Len(loggers) + 1, prefix))

\* z := l.Zap(); a nil receiver is dereferenced.
ZapCall ==
    /\ proc = "running"
    /\ \E l \in Receivers :
         /\ last' = [NoOp("Zap") EXCEPT !.h = l,
                                        !.zap = IF l = NilSugar THEN <<>> ELSE Zap(build, l),
                                        !.returned = l # NilSugar]
         /\ proc' = IF l = NilSugar THEN "panicked" ELSE "running"
    /\ UNCHANGED <<build, defaultLogger, loggers, stdout, file, stderr, ncalls,
                   wasSet, setArg, prevArg, errIn, errOut, ext>>

\* l.Zap().Debug/.../Fatal(msg): a leveled call on the engine handle just
\* obtained; on a nil *zap.Logger it dereferences nil.
EngineCall(lvls) ==
    /\ proc = "running"
    /\ ncalls < MaxCalls
    /\ last.op = "Zap"
    /\ \E lvl \in lvls :
         Emit("zap", last.h, last.zap,
              IF last.zap = <<>> THEN Panic ELSE ZapLog(last.zap[1], lvl), lvl, <<>>)
    /\ UNCHANGED ext

\* ctx = LoggerToContext(ctx, l): context.WithValue stores l, nil included.
LoggerToContext(c, l) == <<l>>

\* Fault: retrieval without the l.Zap() != nil test.
LoggerFromContext_EngineUntested(b, c) ==
    IF c # <<>> /\ c[1].kind # "nil" THEN c[1] ELSE NewNoopLogger

\* LoggerFromContext(ctx)
LoggerFromContext(b, c) ==
    IF c # <<>> /\ c[1].kind # "nil" /\ Zap(b, c[1]) # <<>> THEN c[1]
    ELSE NewNoopLogger

LoggerToContextCall ==
    /\ proc = "running"
    /\ \E l \in Passable :
         /\ ctx' = LoggerToContext(ctx, l)
         /\ last' = [NoOp("LoggerToContext") EXCEPT !.h = l]
    /\ UNCHANGED <<build, defaultLogger, loggers, stdout, file, stderr, proc, ncalls,
                   wasSet, setArg, prevArg, errIn, errOut, thr, mu, words, started, broken>>

LoggerFromContextCall ==
    /\ proc = "running"
    /\ last' = [NoOp("LoggerFromContext") EXCEPT !.ret = LoggerFromContext(build, ctx)]
    /\ UNCHANGED <<build, defaultLogger, loggers, stdout, file, stderr, proc, ncalls,
                   wasSet, setArg, prevArg, errIn, errOut, ext>>

\* l.Debug/Info/Warn/Error/Fatal(msg, fields...) on a handle the caller holds
MethodCall(lvls, fs) ==
    /\ proc = "running"
    /\ ncalls < MaxCalls
    /\ \E l \in Receivers, lvl \in lvls, errs \in fs :
         Log("method", l, lvl, errs)
    /\ UNCHANGED ext

\* trace.Debug/Info/Warn/Error/Fatal(msg, fields...)
PackageCall(lvls, fs) ==
    /\ proc = "running"
    /\ ncalls < MaxCalls
    /\ \E lvl \in lvls, errs \in fs :
         Log("pkg", PackageTarget(defaultLogger, InitialDefault(build)), lvl, errs)
    /\ UNCHANGED ext

\* The registry and the handles over a process's life.
Init == InitWith({<<>>}, {NilErr})

Next ==
    \/ NewLogger(RegistryNewArgs)
    \/ SetDefaultLogger
    \/ GetDefaultLogger
    \/ MethodCall(SomeLevels, {<<>>})
    \/ PackageCall(SomeLevels, {<<>>})

Spec == Init /\ [][Next]_vars

\* Leveled calls on one logger built by New, over all of New's arguments.
InitNew == InitWith({<<New(1, a[1], a[2], a[3])>> : a \in AllNewArgs}, {NilErr})

NextNew == MethodCall(RealLevels, ErrArgs)

SpecNew == InitNew /\ [][NextNew]_vars

\* Handles derived by With and Named, and leveled calls on them.
NextDerive ==
    \/ NewLogger(DeriveNewArgs)
    \/ WithCall
    \/ NamedCall
    \/ MethodCall(SomeLevels, {<<>>})

SpecDerive == Init /\ [][NextDerive]_vars

\* Child loggers made by NewChildLogger, With and Named.
NextChild ==
    \/ NewLogger(ChildNewArgs)
    \/ NewChildCall
    \/ WithCall
    \/ NamedCall
    \/ MethodCall(SomeLevels, {<<>>})

SpecChild == Init /\ [][NextChild]_vars

\* The engine handle behind a logger, and leveled calls made on it.
NextZap ==
    \/ NewLogger(DeriveNewArgs)
    \/ ZapCall
    \/ EngineCall(SomeLevels)
    \/ MethodCall(SomeLevels, {<<>>})

SpecZap == Init /\ [][NextZap]_vars

\* A logger carried by a context.
NextCtx ==
    \/ NewLogger(DeriveNewArgs)
    \/ LoggerToContextCall
    \/ LoggerFromContextCall
    \/ MethodCall(SomeLevels, {<<>>})

SpecCtx == Init /\ [][NextCtx]_vars

\* ---------------------------------------------------------------- goroutines
\* Goroutines sharing one logger built by New and a handle derived from it.
\* The cores of the derived handle are the parent's, sinks and mutexes
\* included. Here stdout and file hold the chunks the operating system took,
\* one write at a time.
InitConc ==
    InitWith({<<New(1, InfoLevel, "app", lf), Named(New(1, InfoLevel, "app", lf), 2, "sub")>> :
                 lf \in BOOLEAN}, {NilErr})

\* A record reaches the file descriptor in this many writes at most.
Parts == 2

\* Fault: a sink whose mutex is never found held.
Locked_Never(m, sink) == FALSE

\* zapcore.Lock(ws): the sink's mutex is held by some goroutine.
Locked(m, sink) == m[sink] # 0

\* The sink a tee core writes next: its cores in order, standard output first.
NextSink(todo) == IF "stdout" \in todo THEN "stdout" ELSE "file"

\* Goroutine t starts l.Debug/.../Error(msg): the entry is checked and
\* encoded; with no core enabled the call returns at once.
GoLog(t) ==
    /\ proc = "running"
    /\ ncalls < MaxCalls
    /\ thr[t].pc = "idle"
    /\ \E h \in Pool, lvl \in {DebugLevel, ErrorLevel} :
         LET cores == Dispatch(h, lvl).cores
         IN  /\ thr' = [thr EXCEPT ![t] =
                          IF cores = {} THEN Idle
                          ELSE [pc |-> "lock", h |-> h, lvl |-> lvl, rec |-> ncalls + 1,
                                todo |-> cores, part |-> 1]]
             /\ last' = IF cores = {}
                        THEN [NoOp("Log") EXCEPT !.via = "go", !.h = h, !.lvl = lvl,
                                                 !.zap = h.Log]
                        ELSE last
    /\ ncalls' = ncalls + 1
    /\ UNCHANGED <<build, defaultLogger, loggers, stdout, file, stderr, proc, wasSet,
                   setArg, prevArg, errIn, errOut, ctx, mu, words, started, broken>>

\* lockedWriteSyncer.Write: s.Lock()
LockSink(t) ==
    /\ thr[t].pc = "lock"
    /\ ~Locked(mu, NextSink(thr[t].todo))
    /\ mu' = [mu EXCEPT ![NextSink(thr[t].todo)] = t]
    /\ thr' = [thr EXCEPT ![t].pc = "write", ![t].part = 1]
    /\ UNCHANGED <<build, defaultLogger, loggers, stdout, file, stderr, proc, ncalls,
                   wasSet, setArg, prevArg, last, errIn, errOut, ctx, words, started,
                   broken>>

\* lockedWriteSyncer.Write: s.ws.Write(bs), one chunk of the record at a time.
WriteSink(t) ==
    /\ thr[t].pc = "write"
    /\ LET sink == NextSink(thr[t].todo)
           chunk == [rec |-> thr[t].rec, part |-> thr[t].part]
       IN  /\ stdout' = IF sink = "stdout" THEN Append(stdout, chunk) ELSE stdout
           /\ file' = IF sink = "file" THEN Append(file, chunk) ELSE file
    /\ thr' = IF thr[t].part < Parts
              THEN [thr EXCEPT ![t].part = @ + 1]
              ELSE [thr EXCEPT ![t].pc = "unlock"]
    /\ UNCHANGED <<build, defaultLogger, loggers, stderr, proc, ncalls, wasSet, setArg,
                   prevArg, last, errIn, errOut, ctx, mu, words, started, broken>>

\* lockedWriteSyncer.Write: s.Unlock(); the tee goes on to its next core and
\* the call returns after the last one.
UnlockSink(t) ==
    /\ thr[t].pc = "unlock"
    /\ LET sink == NextSink(thr[t].todo)
           rest == thr[t].todo \ {sink}
       IN  /\ mu' = [mu EXCEPT ![sink] = 0]
           /\ thr' = [thr EXCEPT ![t] = IF rest = {} THEN Idle
                                        ELSE [thr[t] EXCEPT !.pc = "lock", !.todo = rest]]
           /\ last' = IF rest = {}
                      THEN [NoOp("Log") EXCEPT !.via = "go", !.h = thr[t].h,
                                               !.lvl = thr[t].lvl, !.zap = thr[t].h.Log,
                                               !.arg = <<thr[t].rec>>,
                                               !.tried = thr[t].h.Log[1].cores,
                                               !.wrote = thr[t].h.Log[1].cores]
                      ELSE last
    /\ UNCHANGED <<build, defaultLogger, loggers, stdout, file, stderr, proc, ncalls,
                   wasSet, setArg, prevArg, errIn, errOut, ctx, words, started, broken>>

NextConc ==
    \/ \E t \in Threads : GoLog(t)
    \/ \E t \in Threads : LockSink(t)
    \/ \E t \in Threads : WriteSink(t)
    \/ \E t \in Threads : UnlockSink(t)

SpecConc == InitConc /\ [][NextConc]_vars

\* Goroutines on the default slot, which no lock guards. The slot is an
\* interface value of two words, type and data, each stored and loaded by
\* itself; a word is named here by the logger it belongs to.
InitRace ==
    InitWith({<<New(1, InfoLevel, "app", FALSE), New(2, DisabledLevel, "", FALSE)>>},
             {NilErr})

\* Calls begun and not yet returned.
InFlight == Cardinality({t \in Threads : thr[t].pc # "idle"})
Storing == \E t \in Threads : thr[t].pc = "store"
Loading == \E t \in Threads : thr[t].pc = "load"

\* Fault: a load served from the value the package started with.
Load_Initial(w, word) == InitialDefault(build)

\* A load of one word of defaultLogger: what memory holds now.
Load(w, word) == w[word]

\* The loggers a loaded interface value can act as: itself when both words
\* belong to one logger; when they do not (a torn read, undefined behaviour)
\* either logger, or a fault like that of a nil interface.
Observed(tab, data) == IF tab = data THEN {tab} ELSE {tab, data, NilLogger}

\* Goroutine t runs SetDefaultLogger(logger): the first word is stored.
SetStoreTab(t) ==
    /\ proc = "running"
    /\ ncalls + InFlight < MaxCalls
    /\ thr[t].pc = "idle"
    /\ \E logger \in Passable :
         /\ thr' = [thr EXCEPT ![t] = [pc |-> "store", arg |-> logger]]
         /\ words' = [words EXCEPT !.tab = SetDefaultLoggerValue(build, logger)]
    /\ broken' = (broken \/ started \/ Storing)
    /\ UNCHANGED <<build, defaultLogger, loggers, stdout, file, stderr, proc, ncalls,
                   wasSet, setArg, prevArg, last, errIn, errOut, ctx, mu, started>>

\* ... the second word is stored and SetDefaultLogger returns.
SetStoreData(t) ==
    /\ proc = "running"
    /\ thr[t].pc = "store"
    /\ words' = [words EXCEPT !.data = SetDefaultLoggerValue(build, thr[t].arg)]
    /\ defaultLogger' = SetDefaultLoggerValue(build, thr[t].arg)
    /\ setArg' = thr[t].arg
    /\ prevArg' = setArg
    /\ wasSet' = TRUE
    /\ last' = [NoOp("SetDefaultLogger") EXCEPT !.via = "go", !.h = thr[t].arg]
    /\ thr' = [thr EXCEPT ![t] = Idle]
    /\ ncalls' = ncalls + 1
    /\ UNCHANGED <<build, loggers, stdout, file, stderr, proc, errIn, errOut, ctx, mu,
                   started, broken>>

\* Goroutine t runs GetDefaultLogger() or a package-level Error(msg): the
\* first word of defaultLogger is loaded.
ReadLoadTab(t) ==
    /\ proc = "running"
    /\ ncalls + InFlight < MaxCalls
    /\ thr[t].pc = "idle"
    /\ \E op \in {"GetDefaultLogger", "pkg"} :
         thr' = [thr EXCEPT ![t] = [pc |-> "load", op |-> op, tab |-> Load(words, "tab")]]
    /\ started' = TRUE
    /\ broken' = (broken \/ Storing)
    /\ UNCHANGED <<build, defaultLogger, loggers, stdout, file, stderr, proc, ncalls,
                   wasSet, setArg, prevArg, last, errIn, errOut, ctx, mu, words>>

\* ... the second word is loaded; GetDefaultLogger returns the value, the
\* package-level function calls Error on it.
ReadLoadData(t) ==
    /\ proc = "running"
    /\ thr[t].pc = "load"
    /\ \E h \in Observed(thr[t].tab, Load(words, "data")) :
         IF thr[t].op = "pkg"
         THEN Log("pkg", h, ErrorLevel, <<>>)
         ELSE /\ last' = [NoOp("GetDefaultLogger") EXCEPT !.via = "go", !.ret = h]
              /\ ncalls' = ncalls + 1
              /\ UNCHANGED <<build, defaultLogger, loggers, stdout, file, stderr, proc,
                             wasSet, setArg, prevArg, errIn, errOut>>
    /\ thr' = [thr EXCEPT ![t] = Idle]
    /\ UNCHANGED <<ctx, mu, words, started, broken>>

NextRace ==
    \/ \E t \in Threads : SetStoreTab(t)
    \/ \E t \in Threads : SetStoreData(t)
    \/ \E t \in Threads : ReadLoadTab(t)
    \/ \E t \in Threads : ReadLoadData(t)

SpecRace == InitRace /\ [][NextRace]_vars

\* Err applied to one error.
InitErr == InitWith({<<>>}, ErrInputs)

\* f := Err(err)
ErrCall ==
    /\ errOut' = Err(errIn)
    /\ last' = NoOp("Err")
    /\ UNCHANGED <<build, defaultLogger, loggers, stdout, file, stderr, proc,
                   ncalls, wasSet, setArg, prevArg, errIn, ext>>

NextErr == ErrCall

SpecErr == InitErr /\ [][NextErr]_vars

TypeOK ==
    /\ build \in Builds
    /\ proc \in {"running", "exited", "panicked"}
    /\ ncalls \in 0..MaxCalls
    /\ Len(loggers) <= MaxLoggers


\* ---------------------------------------------------------------- claims
LastLog == last.op = "Log"
LastPkg == LastLog /\ last.via = "pkg"
HasEngine(h) == h.kind = "sugar" /\ h.Log # <<>>
ZeroValue(h) == h.kind = "sugar" /\ h.Log = <<>>
IsWS(c) == c \in {"\n", "\t"}

\* C1: in every reachable state the default slot holds a non-nil logger;
\* after SetDefaultLogger(nil) the slot (and so GetDefaultLogger) holds a NoOp
\* and a package-level call made then returns without failing.
C1_SlotNeverNil ==
    /\ defaultLogger # NilLogger
    /\ (wasSet /\ setArg = NilLogger) => defaultLogger = NoopLogger
    /\ (wasSet /\ setArg = NilLogger /\ last.op = "GetDefaultLogger") => last.ret = NoopLogger
    /\ (wasSet /\ setArg = NilLogger /\ LastPkg) => last.returned

\* C2: a read of the default slot sees the logger the most recent
\* SetDefaultLogger installed: GetDefaultLogger returns the handle last set and
\* a package-level call is delivered to it, never to the one set before it
\* (after SetDefaultLogger(nil) the read sees no logger set earlier).
C2_ReadsLatestDefault ==
    (wasSet /\ (last.op = "GetDefaultLogger" \/ LastPkg)) =>
        LET seen == IF LastPkg THEN last.h ELSE last.ret
        IN  /\ setArg # NilLogger => seen = setArg
            /\ setArg = NilLogger => seen.kind \in {"noop", "nil"}
            /\ prevArg # setArg /\ prevArg.kind = "sugar" => seen # prevArg

C2_Witness ==
    /\ LastPkg
    /\ HasEngine(prevArg) /\ HasEngine(setArg) /\ prevArg # setArg
    /\ last.h = setArg
    /\ last.wrote = {"stdout"}

\* C3: before any SetDefaultLogger call the default is a NoOp: GetDefaultLogger
\* returns a NoOp, and a leveled call on it or a package-level leveled call
\* returns having attempted no write on any sink.
C3_InitialDefaultSilent ==
    ~wasSet =>
        /\ defaultLogger.kind = "noop"
        /\ last.op = "GetDefaultLogger" => last.ret.kind = "noop"
        /\ (LastLog /\ (last.via = "pkg" \/ last.h = defaultLogger)) =>
               (last.h.kind = "noop" /\ last.tried = {} /\ last.returned)

C3_Witness ==
    /\ ~wasSet
    /\ LastPkg
    /\ last.lvl = ErrorLevel
    /\ last.tried = {}
    /\ Len(loggers) > 0

C5_ErrNilIsEmptyString ==
    (LastLog /\ last.errs = <<NilErr>>) =>
        \A sink \in last.wrote :
           LET out == IF sink = "stdout" THEN stdout ELSE file
               r == out[Len(out)]
           IN  /\ Len(r.fields) = 1
               /\ r.fields[1].key = "error"
               /\ r.fields[1].type = "string"
               /\ r.fields[1].val = <<>>

C5_Witness ==
    /\ LastLog /\ last.errs = <<NilErr>>
    /\ last.wrote = {"stdout", "file"}
    /\ stdout[Len(stdout)].fields = <<[key |-> "error", type |-> "string", val |-> <<>>]>>

\* C6: on a logger built by New with a minimum level among Debug..Fatal, a
\* leveled call emits a record iff its level is at least the minimum; a call
\* below the minimum attempts no write on any sink.
C6_EmitsIffAtLeastMinimum ==
    (LastLog /\ HasEngine(last.h) /\ last.h.Log[1].level \in RealLevels) =>
        /\ last.tried # {} <=> last.lvl >= last.h.Log[1].level
        /\ last.lvl < last.h.Log[1].level => (last.tried = {} /\ last.wrote = {})

C6_Witness ==
    /\ LastLog /\ HasEngine(last.h)
    /\ last.h.Log[1].level = WarnLevel
    /\ last.lvl = WarnLevel
    /\ last.wrote # {}
    /\ ncalls = 2
    /\ Len(stdout) = 1

\* C7: DisabledLevel() is 127, strictly above Debug, Info, Warn, Error and
\* Fatal, and a logger built by New(DisabledLevel(), ...) leaves every sink
\* empty whatever leveled calls are made on it.
C7_DisabledNeverEmits ==
    /\ DisabledLevel = 127
    /\ \A lvl \in RealLevels : DisabledLevel > lvl
    /\ (Len(loggers) = 1 /\ HasEngine(loggers[1]) /\ loggers[1].Log[1].level = DisabledLevel) =>
          /\ stdout = <<>> /\ file = <<>> /\ stderr = 0
          /\ (LastLog /\ last.h = loggers[1]) => last.tried = {}

C7_Witness ==
    /\ Len(loggers) = 1 /\ HasEngine(loggers[1]) /\ loggers[1].Log[1].level = DisabledLevel
    /\ LastLog /\ last.h = loggers[1] /\ last.lvl = ErrorLevel
    /\ ncalls = 2
    /\ stdout = <<>> /\ file = <<>>

\* C8: on a logger built by New with a file handle, a record that passes the
\* level filter is written to standard output and to the file: a write is
\* attempted on both sinks whether or not the other one failed, and each sink
\* whose write succeeded ends with the record.
C8_FanOutToBothSinks ==
    (LastLog /\ HasEngine(last.h) /\ last.h.Log[1].cores = {"stdout", "file"}
       /\ last.lvl >= last.h.Log[1].level) =>
        /\ last.tried = {"stdout", "file"}
        /\ \A sink \in last.wrote :
             LET out == IF sink = "stdout" THEN stdout ELSE file
             IN  /\ Len(out) > 0
                 /\ out[Len(out)].level = last.lvl
                 /\ out[Len(out)].name = last.h.Log[1].name

C8_Witness ==
    /\ LastLog /\ HasEngine(last.h) /\ last.h.Log[1].cores = {"stdout", "file"}
    /\ last.tried = {"stdout", "file"}
    /\ last.wrote = {"file"}
    /\ stdout = <<>> /\ Len(file) = 1

\* C9: on the NoOp logger each of Debug, Info, Warn, Error and Fatal returns to
\* its caller having written to no sink, changed no state (the default slot
\* included) and not ended the process.
C9_NoopCallsChangeNothing ==
    [][(last'.op = "Log" /\ last'.h.kind = "noop") =>
          /\ last'.returned /\ last'.tried = {}
          /\ UNCHANGED <<build, defaultLogger, loggers, stdout, file, stderr, proc,
                         wasSet, setArg, prevArg, errIn, errOut>>]_vars

C9_Witness ==
    /\ LastLog /\ last.h = NoopLogger /\ last.lvl = FatalLevel
    /\ last.via = "pkg"
    /\ proc = "running"
    /\ wasSet

\* C10: on a concrete logger with no engine handle (zero-value construction)
\* each of Debug, Info, Warn, Error and Fatal returns without failing, emits
\* nothing and does not end the process; With and Named on it return a handle
\* that again has no engine handle, so the same holds of it.
C10_ZeroValueLoggerIsSafe ==
    [][/\ (last'.op = "Log" /\ ZeroValue(last'.h)) =>
             /\ last'.returned /\ last'.tried = {}
             /\ proc' = "running"
             /\ UNCHANGED <<stdout, file, stderr>>
       /\ (last'.op \in {"With", "Named"} /\ ZeroValue(last'.h)) =>
             /\ ZeroValue(last'.ret)
             /\ \A lvl \in RealLevels : Dispatch(last'.ret, lvl) = Nothing
             /\ proc' = "running"]_vars

C10_Witness ==
    /\ LastLog /\ ZeroValue(last.h) /\ last.lvl = FatalLevel
    /\ proc = "running"
    /\ ncalls = 2


\* The record a sink received last.
LastOn(sink) == IF sink = "stdout" THEN stdout[Len(stdout)] ELSE file[Len(file)]

\* C11: every record emitted by a logger New built with a non-empty prefix
\* carries that prefix as its name; a record emitted by a logger New built
\* with the empty prefix has no name field at all.
C11_PrefixIsTheRecordName ==
    \A a \in AllNewArgs :
        (LastLog /\ last.h = New(1, a[1], a[2], a[3])) =>
            \A sink \in last.wrote :
                IF a[2] # ""
                THEN "logger" \in LastOn(sink).keys /\ LastOn(sink).name = <<a[2]>>
                ELSE "logger" \notin LastOn(sink).keys /\ LastOn(sink).name = <<>>

C11_Witness ==
    /\ LastLog /\ last.h = New(1, InfoLevel, "", TRUE)
    /\ last.wrote = {"stdout", "file"}
    /\ "logger" \notin LastOn("stdout").keys
    /\ ncalls = 2 /\ Len(stdout) = 1


\* C12: With and Named on a concrete logger return a new handle and leave the
\* receiver (and every other handle) as it was: the child carries the
\* receiver's name and fields plus the added fields or the added name segment
\* (an empty name adds none), and a record emitted through any handle carries
\* exactly that handle's name and fields.
C12_DerivationLeavesReceiver ==
    [][/\ (last'.op \in {"With", "Named"} /\ HasEngine(last'.h)) =>
             LET p == last'.h.Log[1]
                 c == last'.ret.Log[1]
             IN  /\ \A i \in 1..Len(loggers) : loggers'[i] = loggers[i]
                 /\ last'.h \in {loggers'[i] : i \in 1..Len(loggers')}
                 /\ last'.ret # last'.h
                 /\ HasEngine(last'.ret)
                 /\ IF last'.op = "With"
                    THEN c.fields = p.fields \o last'.arg /\ c.name = p.name
                    ELSE c.fields = p.fields
                         /\ c.name = p.name \o SelectSeq(last'.arg, LAMBDA n : n # "")
       /\ (last'.op = "Log" /\ HasEngine(last'.h)) =>
             /\ ("stdout" \in last'.wrote) =>
                   /\ stdout'[Len(stdout')].fields = last'.h.Log[1].fields
                   /\ stdout'[Len(stdout')].name = last'.h.Log[1].name
             /\ ("file" \in last'.wrote) =>
                   /\ file'[Len(file')].fields = last'.h.Log[1].fields
                   /\ file'[Len(file')].name = last'.h.Log[1].name]_vars

C12_Witness ==
    /\ Len(loggers) = 2
    /\ loggers[1].Log[1].fields = <<>>
    /\ loggers[2].Log[1].fields # <<>>
    /\ LastLog /\ last.h = loggers[1]
    /\ "stdout" \in last.wrote
    /\ LastOn("stdout").fields = <<>>
    /\ LastOn("stdout").name = <<"app">>


\* C13: NewChildLogger never returns nil and never fails; for a nil parent or
\* a parent without an engine handle (zero-value logger, NoOp) it returns a
\* NoOp logger; for a parent with an engine it returns a concrete child on the
\* parent's sinks and level whose name is the parent's plus the prefix when
\* the prefix is non-empty.
C13_ChildOfAbsentIsNoOp ==
    last.op = "NewChildLogger" =>
        /\ last.returned
        /\ last.ret # NilLogger
        /\ (last.h = NilLogger \/ ~HasEngine(last.h)) => last.ret.kind = "noop"
        /\ HasEngine(last.h) =>
              /\ HasEngine(last.ret)
              /\ last.ret.Log[1].cores = last.h.Log[1].cores
              /\ last.ret.Log[1].level = last.h.Log[1].level
              /\ last.ret.Log[1].name =
                     last.h.Log[1].name \o SelectSeq(last.arg, LAMBDA n : n # "")


\* C14: LoggerFromContext returns without failing and never returns nil; when
\* the context carries a logger with an engine handle it returns exactly that
\* logger; when the context carries no logger, a nil logger or a logger without
\* an engine handle it returns a NoOp logger.
C14_ContextRoundTrip ==
    last.op = "LoggerFromContext" =>
        /\ last.returned
        /\ last.ret # NilLogger
        /\ (ctx # <<>> /\ HasEngine(ctx[1])) => last.ret = ctx[1]
        /\ (ctx = <<>> \/ ctx[1] = NilLogger \/ ~HasEngine(ctx[1])) =>
               last.ret.kind = "noop"

C14_Witness ==
    /\ last.op = "LoggerFromContext"
    /\ Len(loggers) = 2
    /\ ctx = <<loggers[2]>>
    /\ last.ret = loggers[2]
    /\ last.ret # loggers[1]


\* C16 (as stated): Zap() on a NoOp logger never yields nil; it yields a
\* handle on which every call returns and emits nothing.
C16_NoopZapNeverNil ==
    /\ (last.op = "Zap" /\ last.h.kind = "noop") => last.zap # <<>>
    /\ (LastLog /\ last.via = "zap" /\ last.h.kind = "noop") =>
           (last.zap # <<>> /\ last.tried = {} /\ proc # "panicked")

\* C16 (amended): Zap() on a NoOp logger yields nil where NoopLogger is the one
\* of interface.go, and a call on that nil handle fails; where NoopLogger.Zap
\* returns zap.NewNop() it yields a non-nil handle that enables no level and
\* has no sink, and a call on it at any level attempts no write.
C16_NoopZapNilOrInert ==
    /\ (last.op = "Zap" /\ last.h.kind = "noop") =>
           IF build = "interface.go" THEN last.zap = <<>>
           ELSE /\ last.zap # <<>>
                /\ \A lvl \in RealLevels : CheckedCores(last.zap[1], lvl) = {}
    /\ (LastLog /\ last.via = "zap" /\ last.h.kind = "noop") =>
           IF build = "interface.go"
           THEN last.zap = <<>> /\ proc = "panicked" /\ last.tried = {}
           ELSE last.zap # <<>> /\ proc # "panicked" /\ last.tried = {} /\ last.wrote = {}

C16_Witness ==
    /\ build = "part_000"
    /\ LastLog /\ last.via = "zap" /\ last.h.kind = "noop"
    /\ last.lvl = ErrorLevel
    /\ last.zap = <<ZapNewNop>>
    /\ last.returned
    /\ stdout = <<>> /\ file = <<>>


\* C17 (as stated): a Fatal call on a logger with an engine handle, direct or
\* through the package-level Fatal, attempts the record on every sink of the
\* logger, ends the process and does not return.
C17_FatalWritesEverySink ==
    (LastLog /\ last.via \in {"method", "pkg"} /\ HasEngine(last.h)
             /\ last.lvl = FatalLevel) =>
        /\ last.tried = last.h.Log[1].cores
        /\ proc = "exited"
        /\ ~last.returned

\* C17 (amended): such a Fatal call attempts the record on every sink of the
\* logger when the logger's minimum level is at most Fatal and on no sink when
\* it is higher (the disabled level); in both cases it ends the process and
\* does not return, and once the process has ended nothing more is written.
C17_FatalAlwaysExits ==
    [][/\ (last'.op = "Log" /\ last'.via \in {"method", "pkg"} /\ HasEngine(last'.h)
                            /\ last'.lvl = FatalLevel) =>
              /\ last'.tried = IF last'.h.Log[1].level <= FatalLevel
                               THEN last'.h.Log[1].cores ELSE {}
              /\ proc' = "exited"
              /\ ~last'.returned
       /\ proc = "exited" => UNCHANGED <<stdout, file, stderr, proc>>]_vars

C17_Witness ==
    /\ LastPkg /\ HasEngine(last.h) /\ last.h = defaultLogger
    /\ last.lvl = FatalLevel
    /\ last.wrote = {"stdout"}
    /\ LastOn("stdout").level = FatalLevel
    /\ proc = "exited"


\* C18: a handle made from a logger with an engine by With, Named or
\* NewChildLogger has an engine that, at every level, is written on exactly the
\* sinks the parent's engine is written on (so it emits iff the parent would);
\* NewChildLogger with the empty prefix returns a new handle on the parent's
\* own engine; and a leveled call on any handle attempts exactly those sinks.
C18_ChildInheritsSinksAndLevel ==
    [][/\ (last'.op \in {"With", "Named", "NewChildLogger"} /\ HasEngine(last'.h)) =>
             /\ HasEngine(last'.ret)
             /\ \A lvl \in RealLevels :
                    CheckedCores(last'.ret.Log[1], lvl) = CheckedCores(last'.h.Log[1], lvl)
             /\ (last'.op = "NewChildLogger" /\ last'.arg = <<"">>) =>
                    (last'.ret.Log = last'.h.Log /\ last'.ret # last'.h)
       /\ (last'.op = "Log" /\ HasEngine(last'.h)) =>
             last'.tried = CheckedCores(last'.h.Log[1], last'.lvl)]_vars

C18_Witness ==
    /\ Len(loggers) = 2
    /\ HasEngine(loggers[1])
    /\ loggers[2].Log[1].name = loggers[1].Log[1].name \o <<"sub">>
    /\ loggers[2].Log[1].eid # loggers[1].Log[1].eid
    /\ LastLog /\ last.h = loggers[2] /\ last.lvl = ErrorLevel
    /\ last.tried = {"stdout"} /\ last.wrote = {"stdout"}
    /\ LastOn("stdout").name = loggers[2].Log[1].name


\* What a sink received.
Written(sink) == IF sink = "stdout" THEN stdout ELSE file
\* The chunks of a sink are whole records one after the other.
Whole(S) ==
    \A i \in 1..Len(S) :
        /\ S[i].part > 1 => (i > 1 /\ S[i-1] = [rec |-> S[i].rec, part |-> S[i].part - 1])
        /\ (S[i].part < Parts /\ i < Len(S)) =>
               S[i+1] = [rec |-> S[i].rec, part |-> S[i].part + 1]

\* C15: with goroutines calling one logger built by New and a handle derived
\* from it, on every sink the chunks of one record are adjacent and in order,
\* no chunk of another record between them, and when a call that emitted
\* returns, each sink of the logger holds every chunk of its record once.
C15_RecordsWrittenWhole ==
    /\ Whole(stdout)
    /\ Whole(file)
    /\ (LastLog /\ last.via = "go") =>
           \A sink \in last.wrote, k \in 1..Parts :
               Cardinality({i \in 1..Len(Written(sink)) :
                               Written(sink)[i] = [rec |-> last.arg[1], part |-> k]}) = 1

C15_Witness ==
    /\ \A t \in Threads : thr[t].pc = "idle"
    /\ ncalls = 2
    /\ Len(stdout) = 2 * Parts /\ Len(file) = 2 * Parts
    /\ stdout[1].rec = 1 /\ file[1].rec = 2


====
